---- MODULE Spec2Model ----
(***************************************************************************)
(* A model of pyopt (src/pyopt.py): functions exposed as command-line      *)
(* commands, the three parsers (ArgsFunction, MixedFunction,               *)
(* KwargsFunction) and the dispatcher (Exposer.parse_args / Exposer.run).  *)
(*                                                                         *)
(* Python strings are modelled as sequences of one-character strings, so   *)
(* that startswith, indexing and slicing are computed as Python does.      *)
(* Python values are tagged records [t |-> type, v |-> value].             *)
(* Python lists are sequences; list index i of the source is i + 1 here.   *)
(* A dict is a function; the registry, whose insertion order is read by    *)
(* the code, is a sequence of <<key, value>> pairs.                        *)
(***************************************************************************)
EXTENDS Integers, Sequences, FiniteSets, TLC

VARIABLES
    functions_dict,  \* Exposer.functions_dict: sequence of [key, value]
    pc,              \* "setup", "kwargs_loop", "parsed" (parse_args has ended), "done"
    cmd_args,        \* self.cmd_args
    script_name,     \* self.script_name
    is_single,       \* self.is_single
    func,            \* self.func, as its key in functions_dict; NoFunc when unset
    raw_args,        \* self.raw_args, the list handed to func.parse
    i,               \* KwargsFunction.parse: the cursor
    name,            \* KwargsFunction.parse: the local `name`, or Unbound
    args_dict,       \* KwargsFunction.parse: the local args_dict
    result,          \* what parse_args returned or raised
    stdout,          \* what was printed, one entry per print call
    calls,           \* the calls of the exposed function made by run
    uncaught,        \* the exception run let through, "" when none
    parse_calls      \* history: the calls self.func.parse(self.raw_args) made

vars == <<functions_dict, pc, cmd_args, script_name, is_single, func, raw_args,
          i, name, args_dict, result, stdout, calls, uncaught, parse_calls>>

-----------------------------------------------------------------------------
(* Python strings and built-in casts *)

S1(a) == <<a>>
S2(a, b) == <<a, b>>
S3(a, b, c) == <<a, b, c>>

startswith(s, prefix) ==
    /\ Len(prefix) <= Len(s)
    /\ SubSeq(s, 1, Len(prefix)) = prefix

endswith(s, suffix) ==
    /\ Len(suffix) <= Len(s)
    /\ SubSeq(s, Len(s) - Len(suffix) + 1, Len(s)) = suffix

\* s[k:] of Python, k counted from 0
SliceFrom(s, k) == SubSeq(s, k + 1, Len(s))

Digits == {"0", "1", "2", "3", "4", "5", "6", "7", "8", "9"}

DigitVal(c) ==
    CASE c = "0" -> 0 [] c = "1" -> 1 [] c = "2" -> 2 [] c = "3" -> 3
      [] c = "4" -> 4 [] c = "5" -> 5 [] c = "6" -> 6 [] c = "7" -> 7
      [] c = "8" -> 8 [] c = "9" -> 9

RECURSIVE DecVal(_)
DecVal(ds) ==
    IF ds = <<>> THEN 0
    ELSE 10 * DecVal(SubSeq(ds, 1, Len(ds) - 1)) + DigitVal(ds[Len(ds)])

IntV(n) == [t |-> "int", v |-> n]
StrV(s) == [t |-> "str", v |-> s]
BoolV(b) == [t |-> "bool", v |-> b]

\* int(tok): an optional sign, then one or more digits; anything else is a
\* ValueError (ok = FALSE).
IntCast(tok) ==
    LET signed == tok # <<>> /\ tok[1] \in {"-", "+"}
        body   == IF signed THEN Tail(tok) ELSE tok
    IN  IF body = <<>> \/ \E k \in 1..Len(body) : body[k] \notin Digits
        THEN [ok |-> FALSE, val |-> StrV(tok)]
        ELSE [ok |-> TRUE,
              val |-> IntV(IF signed /\ tok[1] = "-" THEN 0 - DecVal(body)
                           ELSE DecVal(body))]

\* type_to_cast(arg) for the three annotations the model uses
Cast(type, tok) ==
    CASE type = "int"  -> IntCast(tok)
      [] type = "bool" -> [ok |-> TRUE, val |-> BoolV(tok # <<>>)]
      [] type = "str"  -> [ok |-> TRUE, val |-> StrV(tok)]

-----------------------------------------------------------------------------
(* Outcomes of a call: a return value or a raised exception *)

EmptyDict == <<>>

\* exc = "none" is a return of (args, kwargs); otherwise exc is the class of
\* the exception raised, msg its message template, info the names or
\* token the message is formatted with, payload the texts it was constructed
\* from (<<>> when it was constructed from None or carries no text).
Return(args, kwargs) ==
    [exc |-> "none", msg |-> "", info |-> <<>>, payload |-> <<>>,
     args |-> args, kwargs |-> kwargs]

Raise(exc, msg, info) ==
    [exc |-> exc, msg |-> msg, info |-> info, payload |-> <<>>,
     args |-> <<>>, kwargs |-> EmptyDict]

PrintHelp(payload) ==
    [exc |-> "PrintHelp", msg |-> "", info |-> <<>>, payload |-> payload,
     args |-> <<>>, kwargs |-> EmptyDict]

NoResult == Raise("pending", "", <<>>)

\* d[key] = val
DictSet(d, key, val) == (key :> val) @@ d

-----------------------------------------------------------------------------
(* The Python functions that get exposed *)

n_nu == S2("n", "u")
n_ha == S2("h", "a")
n_br == S2("b", "r")
n_bo == S2("b", "o")
n_sh == S2("s", "h")

\* def f(br:int, nu:bool, ha:bool, sh:str='gold')
bigfun ==
    [name |-> S1("f"), args |-> <<n_br, n_nu, n_ha, n_sh>>,
     annotations |-> (n_br :> "int") @@ (n_nu :> "bool") @@ (n_ha :> "bool")
                     @@ (n_sh :> "str"),
     defaults |-> <<StrV(S1("g"))>>]

\* def g(nu:int, br:int)
roll_dice ==
    [name |-> S1("g"), args |-> <<n_nu, n_br>>,
     annotations |-> (n_nu :> "int") @@ (n_br :> "int"),
     defaults |-> <<>>]

\* def r(sh, br:int, nu:int=42)
robin ==
    [name |-> S1("r"), args |-> <<n_sh, n_br, n_nu>>,
     annotations |-> (n_br :> "int") @@ (n_nu :> "int"),
     defaults |-> <<IntV(42)>>]

\* def c(br:int, bo:bool)
collide ==
    [name |-> S1("c"), args |-> <<n_br, n_bo>>,
     annotations |-> (n_br :> "int") @@ (n_bo :> "bool"),
     defaults |-> <<>>]

\* def o(nu:bool, sh:str='x', br:int=0)
optfun ==
    [name |-> S1("o"), args |-> <<n_nu, n_sh, n_br>>,
     annotations |-> (n_nu :> "bool") @@ (n_sh :> "str") @@ (n_br :> "int"),
     defaults |-> <<StrV(S1("x")), IntV(0)>>]

-----------------------------------------------------------------------------
(* FunctionWrapper.__init__ *)

\* [x for x in seq if Test(x)]
RECURSIVE Filter(_, _)
Filter(seq, keep) ==
    IF seq = <<>> THEN <<>>
    ELSE IF seq[1] \in keep THEN <<seq[1]>> \o Filter(Tail(seq), keep)
         ELSE Filter(Tail(seq), keep)

Range(seq) == {seq[k] : k \in 1..Len(seq)}

FunctionWrapper(function, kind) ==
    LET arg_names         == function.args
        defaults_count    == Len(function.defaults)
        not_default_count == Len(arg_names) - defaults_count
        not_defaulted     == SubSeq(arg_names, 1, not_default_count)
        casts == [a \in Range(arg_names) |->
                    IF a \in DOMAIN function.annotations
                    THEN function.annotations[a] ELSE "str"]
        booleans == Filter(arg_names, {a \in Range(arg_names) : casts[a] = "bool"})
        required == Filter(not_defaulted, Range(not_defaulted) \ Range(booleans))
    IN  [kind           |-> kind,
         function       |-> function,
         arg_names      |-> arg_names,
         name           |-> function.name,
         required       |-> required,
         optional       |-> Range(arg_names) \ Range(required),
         booleans       |-> booleans,
         defaults_count |-> defaults_count,
         needed_args    |-> Len(arg_names) - defaults_count,
         casts          |-> casts]

-----------------------------------------------------------------------------
(* ArgsFunction.parse *)

\* the casts of zip(raw_args, names), in order
ZipCasts(w, names, raw) ==
    [k \in 1..(IF Len(names) < Len(raw) THEN Len(names) ELSE Len(raw)) |->
        Cast(w.casts[names[k]], raw[k])]

\* ArgsFunction.parse counting the required names instead of needed_args
ArgsFunction_parse_required(w, raw) ==
    IF Len(raw) < Len(w.required)
    THEN Raise("PyoptError", "arguments required", <<>>)
    ELSE IF Len(raw) > Len(w.arg_names)
    THEN Raise("PyoptError", "expected at most", <<>>)
    ELSE LET casted == ZipCasts(w, w.arg_names, raw)
         IN  IF \E k \in DOMAIN casted : ~casted[k].ok
             THEN Raise("ValueError", "invalid literal", <<>>)
             ELSE Return([k \in DOMAIN casted |-> casted[k].val], EmptyDict)

ArgsFunction_parse(w, raw) ==
    IF Len(raw) < w.needed_args
    THEN Raise("PyoptError", "arguments required", <<>>)
    ELSE IF Len(raw) > Len(w.arg_names)
    THEN Raise("PyoptError", "expected at most", <<>>)
    ELSE LET casted == ZipCasts(w, w.arg_names, raw)
         IN  IF \E k \in DOMAIN casted : ~casted[k].ok
             THEN Raise("ValueError", "invalid literal", <<>>)
             ELSE Return([k \in DOMAIN casted |-> casted[k].val], EmptyDict)

-----------------------------------------------------------------------------
(* getopt.getopt of the Python standard library, as MixedFunction.parse    *)
(* calls it: returns [err, opts, args]; err # "" is a raised GetoptError.  *)

GetoptOk(opts, args) == [err |-> "", opts |-> opts, args |-> args]
GetoptError(msg) == [err |-> msg, opts |-> <<>>, args |-> <<>>]

\* short_has_arg: "yes", "no", or "error" when opt is no option character
short_has_arg(opt, shortopts) ==
    LET hits == {k \in 1..Len(shortopts) : opt = shortopts[k] /\ shortopts[k] # ":"}
    IN  IF hits = {} THEN "error"
        ELSE LET k == CHOOSE m \in hits : \A h \in hits : m <= h
             IN  IF k + 1 <= Len(shortopts) /\ shortopts[k + 1] = ":"
                 THEN "yes" ELSE "no"

RECURSIVE do_shorts(_, _, _, _)
do_shorts(opts, optstring, shortopts, args) ==
    IF optstring = <<>> THEN GetoptOk(opts, args)
    ELSE LET opt  == optstring[1]
             rest == Tail(optstring)
             has  == short_has_arg(opt, shortopts)
         IN  IF has = "error" THEN GetoptError("not recognized")
             ELSE IF has = "yes"
             THEN IF rest = <<>>
                  THEN IF args = <<>> THEN GetoptError("requires argument")
                       ELSE GetoptOk(Append(opts, <<S2("-", opt), args[1]>>), Tail(args))
                  ELSE GetoptOk(Append(opts, <<S2("-", opt), rest>>), args)
             ELSE do_shorts(Append(opts, <<S2("-", opt), <<>> >>), rest, shortopts, args)

\* long_has_args: [err, has_arg, opt]
long_has_args(opt, longopts) ==
    LET possibilities == {k \in 1..Len(longopts) : startswith(longopts[k], opt)}
    IN  IF possibilities = {} THEN [err |-> "not recognized", has_arg |-> FALSE, opt |-> opt]
        ELSE IF \E k \in possibilities : longopts[k] = opt
        THEN [err |-> "", has_arg |-> FALSE, opt |-> opt]
        ELSE IF \E k \in possibilities : longopts[k] = opt \o S1("=")
        THEN [err |-> "", has_arg |-> TRUE, opt |-> opt]
        ELSE IF Cardinality(possibilities) > 1
        THEN [err |-> "not a unique prefix", has_arg |-> FALSE, opt |-> opt]
        ELSE LET unique_match == longopts[CHOOSE k \in possibilities : TRUE]
                 has_arg      == endswith(unique_match, S1("="))
             IN  [err |-> "", has_arg |-> has_arg,
                  opt |-> IF has_arg
                          THEN SubSeq(unique_match, 1, Len(unique_match) - 1)
                          ELSE unique_match]

do_longs(opts, opt0, longopts, args) ==
    LET eqs    == {k \in 1..Len(opt0) : opt0[k] = "="}
        hasEq  == eqs # {}
        at     == IF hasEq THEN CHOOSE m \in eqs : \A h \in eqs : m <= h ELSE 0
        opt1   == IF hasEq THEN SubSeq(opt0, 1, at - 1) ELSE opt0
        optarg == IF hasEq THEN SubSeq(opt0, at + 1, Len(opt0)) ELSE <<>>
        lha    == long_has_args(opt1, longopts)
        long   == S2("-", "-") \o lha.opt
    IN  IF lha.err # "" THEN GetoptError(lha.err)
        ELSE IF lha.has_arg
        THEN IF ~hasEq
             THEN IF args = <<>> THEN GetoptError("requires argument")
                  ELSE GetoptOk(Append(opts, <<long, args[1]>>), Tail(args))
             ELSE GetoptOk(Append(opts, <<long, optarg>>), args)
        ELSE IF hasEq THEN GetoptError("must not have an argument")
        ELSE GetoptOk(Append(opts, <<long, <<>> >>), args)

\* an option scanner that permutes: it steps over a token that is no option
\* and goes on scanning for options
RECURSIVE getopt_permuting(_, _, _, _)
getopt_permuting(opts, args, shortopts, longopts) ==
    IF args = <<>> THEN GetoptOk(opts, args)
    ELSE IF startswith(args[1], S1("-")) /\ args[1] # S1("-")
    THEN IF args[1] = S2("-", "-") THEN GetoptOk(opts, Tail(args))
         ELSE LET step == IF startswith(args[1], S2("-", "-"))
                          THEN do_longs(opts, SliceFrom(args[1], 2), longopts, Tail(args))
                          ELSE do_shorts(opts, SliceFrom(args[1], 1), shortopts, Tail(args))
              IN  IF step.err # "" THEN step
                  ELSE getopt_permuting(step.opts, step.args, shortopts, longopts)
    ELSE LET later == getopt_permuting(opts, Tail(args), shortopts, longopts)
         IN  IF later.err # "" THEN later
             ELSE GetoptOk(later.opts, <<args[1]>> \o later.args)

RECURSIVE getopt(_, _, _, _)
getopt(opts, args, shortopts, longopts) ==
    IF args # <<>> /\ startswith(args[1], S1("-")) /\ args[1] # S1("-")
    THEN IF args[1] = S2("-", "-") THEN GetoptOk(opts, Tail(args))
         ELSE LET step == IF startswith(args[1], S2("-", "-"))
                          THEN do_longs(opts, SliceFrom(args[1], 2), longopts, Tail(args))
                          ELSE do_shorts(opts, SliceFrom(args[1], 1), shortopts, Tail(args))
              IN  IF step.err # "" THEN step
                  ELSE getopt(step.opts, step.args, shortopts, longopts)
    ELSE GetoptOk(opts, args)

-----------------------------------------------------------------------------
(* MixedFunction.parse *)

\* {name[0]: name for name in arg_names}: a later name replaces an earlier one
short_to_name(arg_names) ==
    [c \in {arg_names[k][1] : k \in 1..Len(arg_names)} |->
        arg_names[CHOOSE k \in 1..Len(arg_names) :
                     /\ arg_names[k][1] = c
                     /\ \A m \in 1..Len(arg_names) : arg_names[m][1] = c => m <= k]]

RECURSIVE Concat(_)
Concat(seqs) == IF seqs = <<>> THEN <<>> ELSE seqs[1] \o Concat(Tail(seqs))

\* ''.join([[name][0] for name in booleans]) + ''.join(["%s:" % name[0] ...])
shorts_str(w) ==
    Concat([k \in 1..Len(w.booleans) |-> w.booleans[k]])
    \o Concat([k \in 1..Len(w.required) |-> S2(w.required[k][1], ":")])

long_opts(w) ==
    w.booleans \o [k \in 1..Len(w.required) |-> w.required[k] \o S1("=")]

\* arg_names.remove(name) left out
Remove_nothing(seq, x) == seq

\* arg_names.remove(name)
Remove(seq, x) ==
    LET k == CHOOSE m \in 1..Len(seq) : seq[m] = x /\ \A h \in 1..(m - 1) : seq[h] # x
    IN  SubSeq(seq, 1, k - 1) \o SubSeq(seq, k + 1, Len(seq))

\* the loop over optlist: [exc, arg_names, kwargs_dict]
RECURSIVE MixedOptLoop(_, _, _, _)
MixedOptLoop(w, optlist, arg_names, kwargs_dict) ==
    IF optlist = <<>>
    THEN [exc |-> "none", arg_names |-> arg_names, kwargs_dict |-> kwargs_dict]
    ELSE LET opt == optlist[1][1]
             val == optlist[1][2]
             stn == short_to_name(w.arg_names)
             isLong == startswith(opt, S2("-", "-"))
             known  == isLong \/ opt[2] \in DOMAIN stn
             nm  == IF isLong THEN SliceFrom(opt, 2) ELSE stn[opt[2]]
             c   == Cast(w.casts[nm], val)
         IN  IF ~known
             THEN [exc |-> "KeyError", arg_names |-> arg_names, kwargs_dict |-> kwargs_dict]
             ELSE IF ~c.ok \/ nm \notin Range(arg_names)
             THEN [exc |-> "ValueError", arg_names |-> arg_names, kwargs_dict |-> kwargs_dict]
             ELSE MixedOptLoop(w, Tail(optlist), Remove(arg_names, nm),
                               DictSet(kwargs_dict, nm, c.val))

MixedFunction_parse(w, raw) ==
    LET got == getopt(<<>>, raw, shorts_str(w), long_opts(w))
    IN  IF got.err # "" THEN Raise("GetoptError", got.err, <<>>)
        ELSE LET looped == MixedOptLoop(w, got.opts, w.arg_names, EmptyDict)
                 casted == ZipCasts(w, looped.arg_names, got.args)
             IN  IF looped.exc # "none" THEN Raise(looped.exc, "", <<>>)
                 ELSE IF \E k \in DOMAIN casted : ~casted[k].ok
                 THEN Raise("ValueError", "invalid literal", <<>>)
                 ELSE Return([k \in DOMAIN casted |-> casted[k].val], looped.kwargs_dict)


-----------------------------------------------------------------------------
(* KwargsFunction.parse: the while loop, one iteration per step *)

Unbound == <<"<unbound>">>

\* for name in self.booleans: args_dict[name] = False
BooleansFalse(w) == [b \in Range(w.booleans) |-> BoolV(FALSE)]

\* the local `name` after that for loop: its loop variable, which stays
\* bound to the last boolean; unbound when there is no boolean
NameAfterBooleans(w) ==
    IF w.booleans = <<>> THEN Unbound ELSE w.booleans[Len(w.booleans)]

\* the cluster loop without the test `name not in self.booleans`
RECURSIVE ClusterLoop_unchecked(_, _, _, _)
ClusterLoop_unchecked(w, shorts, nm, d) ==
    IF shorts = <<>> THEN [exc |-> "none", name |-> nm, args_dict |-> d]
    ELSE LET stn == short_to_name(w.arg_names)
         IN  IF shorts[1] \notin DOMAIN stn
             THEN [exc |-> "KeyError", name |-> nm, args_dict |-> d]
             ELSE ClusterLoop_unchecked(w, Tail(shorts), stn[shorts[1]],
                                        DictSet(d, stn[shorts[1]], BoolV(TRUE)))

\* for short in argument[1:]: ... ; [exc, name, args_dict]
RECURSIVE ClusterLoop(_, _, _, _)
ClusterLoop(w, shorts, nm, d) ==
    IF shorts = <<>> THEN [exc |-> "none", name |-> nm, args_dict |-> d]
    ELSE LET stn == short_to_name(w.arg_names)
         IN  IF shorts[1] \notin DOMAIN stn
             THEN [exc |-> "KeyError", name |-> nm, args_dict |-> d]
             ELSE IF stn[shorts[1]] \notin Range(w.booleans)
             THEN [exc |-> "PyoptError", name |-> stn[shorts[1]], args_dict |-> d]
             ELSE ClusterLoop(w, Tail(shorts), stn[shorts[1]],
                              DictSet(d, stn[shorts[1]], BoolV(TRUE)))

\* One pass through the body of `while i < len(raw_args)`:
\* [exc, msg, info, i, name, args_dict], exc = "none" when the pass ends
\* without raising.
KwargsIteration(w, raw, i0, name0, d0) ==
    LET argument == raw[i0 + 1]
        stn      == short_to_name(w.arg_names)
        out(exc, msg, info, i1, name1, d1) ==
            [exc |-> exc, msg |-> msg, info |-> info, i |-> i1, name |-> name1,
             args_dict |-> d1]
        \* from `if name not in self.arg_names` to the final `i += 1`
        bind(name1) ==
            IF name1 = Unbound
            THEN out("UnboundLocalError", "", <<>>, i0, name1, d0)
            ELSE IF name1 \notin Range(w.arg_names)
            THEN out("PyoptError", "Illegal option given", <<name1>>, i0, name1, d0)
            ELSE IF w.casts[name1] = "bool"
            THEN out("none", "", <<>>, i0 + 1, name1, DictSet(d0, name1, BoolV(TRUE)))
            ELSE IF i0 + 1 >= Len(raw)
            THEN out("IndexError", "", <<>>, i0, name1, d0)
            ELSE LET c == Cast(w.casts[name1], raw[i0 + 2])
                 IN  IF ~c.ok
                     THEN out("ValueError", "invalid literal", <<>>, i0, name1, d0)
                     ELSE out("none", "", <<>>, i0 + 2, name1, DictSet(d0, name1, c.val))
    IN  IF startswith(argument, S2("-", "-"))
        THEN bind(SliceFrom(argument, 2))
        ELSE IF startswith(argument, S1("-"))
        THEN IF Len(argument) = 2
             THEN IF argument[2] \in DOMAIN stn
                  THEN bind(stn[argument[2]])
                  ELSE out("KeyError", "", <<>>, i0, name0, d0)
             ELSE IF Len(argument) > 2
             THEN LET cl == ClusterLoop(w, SliceFrom(argument, 1), name0, d0)
                  IN  IF cl.exc = "none"
                      THEN out("none", "", <<>>, i0 + 1, cl.name, cl.args_dict)
                      ELSE out(cl.exc,
                               IF cl.exc = "PyoptError"
                               THEN "Illegal option given as boolean" ELSE "",
                               <<>>, i0, cl.name, cl.args_dict)
             ELSE bind(name0)
        ELSE out("PyoptError", "Options must start with '-' or '--'", <<>>, i0, name0, d0)

\* the code after the loop, reporting only the first missing option
KwargsReturn_first(w, d) ==
    LET not_given == Filter(w.required, Range(w.required) \ DOMAIN d)
    IN  IF Len(not_given) > 0
        THEN Raise("PyoptError", "The following options are required", <<not_given[1]>>)
        ELSE Return(<<>>, d)

\* the code after the loop
KwargsReturn(w, d) ==
    LET not_given == Filter(w.required, Range(w.required) \ DOMAIN d)
    IN  IF Len(not_given) > 0
        THEN Raise("PyoptError", "The following options are required", not_given)
        ELSE Return(<<>>, d)

-----------------------------------------------------------------------------
(* Exposer: the registry *)

NoFunc == <<>>

Keys(dict) == {dict[k].key : k \in 1..Len(dict)}

Lookup(dict, key) == dict[CHOOSE k \in 1..Len(dict) : dict[k].key = key].value

\* self.functions_dict[key] = value: a new key goes last, a known key keeps
\* its place
DictPut(dict, key, value) ==
    IF key \in Keys(dict)
    THEN [k \in 1..Len(dict) |->
            IF dict[k].key = key THEN [key |-> key, value |-> value] ELSE dict[k]]
    ELSE Append(dict, [key |-> key, value |-> value])

Register(kind, function) ==
    DictPut(functions_dict, function.name, FunctionWrapper(function, kind))

\* Exposer.args, Exposer.kwargs, Exposer.mixed
Expose(kind, function) ==
    /\ pc = "setup"
    /\ functions_dict' = Register(kind, function)
    /\ UNCHANGED <<pc, cmd_args, script_name, is_single, func, raw_args, i, name,
                   args_dict, result, stdout, calls, uncaught, parse_calls>>

-----------------------------------------------------------------------------
(* Usage texts *)

HELP_SET == {S2("-", "h"), <<"-", "-", "h", "e", "l", "p">>, S2("/", "?"),
             S1("?"), S2("-", "?")}

\* os.path.basename: what follows the last "/"
basename(path) ==
    LET slashes == {k \in 1..Len(path) : path[k] = "/"}
    IN  IF slashes = {} THEN path
        ELSE SliceFrom(path, CHOOSE m \in slashes : \A h \in slashes : h <= m)

\* parameters_repr of the three wrappers, as the parts the string is joined
\* from: the required names in order, the optional names (a set, iterated
\* in no fixed order), the booleans in order.
parameters_repr(w) ==
    IF w.kind = "args"
    THEN [style |-> "positional", required |-> w.required, optional |-> w.optional,
          booleans |-> <<>>]
    ELSE [style |-> "switch", required |-> w.required,
          optional |-> w.optional \ Range(w.booleans), booleans |-> w.booleans]

Line(fmt, script, fname, repr) ==
    [fmt |-> fmt, script |-> script, fname |-> fname, repr |-> repr]

NoRepr == [style |-> "", required |-> <<>>, optional |-> {}, booleans |-> <<>>]

\* FunctionWrapper.get_usage; the modelled functions have no docstring
get_usage(w) == Line("\t%s %s\n%s", <<>>, w.name, parameters_repr(w))

\* print_usage_single_func: prints, returns None
print_usage_single_func(script, w) ==
    <<Line("Usage: %s %s", script, <<>>, parameters_repr(w))>>

\* Exposer.print_complete_usage: prints, returns None
print_complete_usage(script, dict) ==
    <<Line("Usage: %s [function_name] [args]", script, <<>>, NoRepr),
      Line("Available functions are:", <<>>, <<>>, NoRepr)>>
    \o [k \in 1..Len(dict) |-> get_usage(dict[k].value)]

\* Exposer.give_help: [printed, raised, func]; raised = <<text>> when it raises
\* PrintHelp(text) itself, <<>> when it returns None
give_help(script, argv, dict) ==
    IF Len(argv) < 3
    THEN [printed |-> print_complete_usage(script, dict), raised |-> <<>>,
          func |-> NoFunc]
    ELSE IF argv[3] \in Keys(dict)
    THEN [printed |-> <<>>, raised |-> <<get_usage(Lookup(dict, argv[3]))>>,
          func |-> argv[3]]
    ELSE [printed |-> <<>>, raised |-> <<>>, func |-> NoFunc]

-----------------------------------------------------------------------------
(* Exposer.parse_args *)

\* self.raw_args = cmd_args[2:] with the command name kept
MultiRawArgs_keep(argv) == SliceFrom(argv, 1)

\* self.raw_args = cmd_args[2:], when several functions are exposed
MultiRawArgs(argv) == SliceFrom(argv, 2)

\* parse_args up to the call of self.func.parse:
\* [script_name, is_single, func, raw_args, printed, result], where
\* result.exc = "pending" means self.func.parse(self.raw_args) is called next;
\* old holds the attributes as they were, for those the call leaves alone.
Dispatch(argv, dict, old) ==
    LET script == basename(argv[1])
        total_funcs == Len(dict)
        out(single, f, raw, printed, res) ==
            [script_name |-> script, is_single |-> single, func |-> f,
             raw_args |-> raw, printed |-> printed, result |-> res]
    IN  IF total_funcs = 0
        THEN out(old.is_single, old.func, old.raw_args, <<>>,
                 Raise("NotImplementedError", "No functions were decorated", <<>>))
        ELSE IF total_funcs = 1
        THEN IF Len(argv) > 1 /\ argv[2] \in HELP_SET
             THEN out(TRUE, dict[1].key, Tail(argv),
                      print_usage_single_func(script, dict[1].value), PrintHelp(<<>>))
             ELSE out(TRUE, dict[1].key, Tail(argv), <<>>, NoResult)
        ELSE IF Len(argv) < 2
        THEN out(FALSE, old.func, MultiRawArgs(argv), print_complete_usage(script, dict),
                 PrintHelp(<<>>))
        ELSE IF argv[2] \in HELP_SET
        THEN LET h == give_help(script, argv, dict)
             IN  out(FALSE, IF h.func = NoFunc THEN old.func ELSE h.func,
                     MultiRawArgs(argv), h.printed, PrintHelp(h.raised))
        ELSE IF argv[2] \in Keys(dict)
        THEN out(FALSE, argv[2], MultiRawArgs(argv), <<>>, NoResult)
        ELSE out(FALSE, old.func, MultiRawArgs(argv), <<>>,
                 Raise("PyoptError", "Unkown function", <<argv[2]>>))

parse_args(argv) ==
    /\ pc = "setup"
    /\ cmd_args' = argv
    /\ IF argv = <<>>
       THEN \* cmd_args[0] raises IndexError
            /\ result' = Raise("IndexError", "", <<>>)
            /\ pc' = "parsed"
            /\ UNCHANGED <<script_name, is_single, func, raw_args, i, name,
                           args_dict, stdout, parse_calls>>
       ELSE LET d == Dispatch(argv, functions_dict,
                              [is_single |-> is_single, func |-> func,
                               raw_args |-> raw_args])
                w == Lookup(functions_dict, d.func)
            IN  /\ script_name' = d.script_name
                /\ is_single' = d.is_single
                /\ func' = d.func
                /\ raw_args' = d.raw_args
                /\ stdout' = stdout \o d.printed
                /\ parse_calls' = IF d.result.exc # "pending" THEN parse_calls
                                  ELSE Append(parse_calls,
                                              [func |-> d.func, raw_args |-> d.raw_args])
                /\ IF d.result.exc # "pending"
                   THEN /\ result' = d.result
                        /\ pc' = "parsed"
                        /\ UNCHANGED <<i, name, args_dict>>
                   ELSE IF w.kind = "kwargs"
                   THEN /\ i' = 0
                        /\ name' = NameAfterBooleans(w)
                        /\ args_dict' = BooleansFalse(w)
                        /\ pc' = "kwargs_loop"
                        /\ UNCHANGED result
                   ELSE /\ result' = IF w.kind = "args"
                                     THEN ArgsFunction_parse(w, d.raw_args)
                                     ELSE MixedFunction_parse(w, d.raw_args)
                        /\ pc' = "parsed"
                        /\ UNCHANGED <<i, name, args_dict>>
    /\ UNCHANGED <<functions_dict, calls, uncaught>>

\* one iteration of the loop of KwargsFunction.parse
KwargsLoop ==
    /\ pc = "kwargs_loop"
    /\ i < Len(raw_args)
    /\ LET it == KwargsIteration(Lookup(functions_dict, func), raw_args, i, name,
                                 args_dict)
       IN  /\ i' = it.i
           /\ name' = it.name
           /\ args_dict' = it.args_dict
           /\ IF it.exc = "none"
              THEN UNCHANGED <<pc, result>>
              ELSE /\ result' = Raise(it.exc, it.msg, it.info)
                   /\ pc' = "parsed"
    /\ UNCHANGED <<functions_dict, cmd_args, script_name, is_single, func, raw_args,
                   stdout, calls, uncaught, parse_calls>>

\* the end of KwargsFunction.parse, which ends parse_args
KwargsExit ==
    /\ pc = "kwargs_loop"
    /\ i >= Len(raw_args)
    /\ result' = KwargsReturn(Lookup(functions_dict, func), args_dict)
    /\ pc' = "parsed"
    /\ UNCHANGED <<functions_dict, cmd_args, script_name, is_single, func, raw_args,
                   i, name, args_dict, stdout, calls, uncaught, parse_calls>>

-----------------------------------------------------------------------------
(* Exposer.run: what follows parse_args *)

\* whether function(*args, **kwargs) binds its parameters (no TypeError)
CallBinds(w, args, kwargs) ==
    /\ Len(args) <= Len(w.arg_names)
    /\ DOMAIN kwargs \subseteq Range(w.arg_names)
    /\ \A k \in 1..Len(args) : w.arg_names[k] \notin DOMAIN kwargs
    /\ \A k \in 1..(Len(w.arg_names) - w.defaults_count) :
          k <= Len(args) \/ w.arg_names[k] \in DOMAIN kwargs

run ==
    /\ pc = "parsed"
    /\ pc' = "done"
    /\ IF result.exc = "none"
       THEN IF CallBinds(Lookup(functions_dict, func), result.args, result.kwargs)
            THEN /\ calls' = Append(calls, [func |-> func, args |-> result.args,
                                            kwargs |-> result.kwargs])
                 /\ UNCHANGED <<stdout, uncaught>>
            ELSE /\ uncaught' = "TypeError"
                 /\ UNCHANGED <<stdout, calls>>
       ELSE IF result.exc = "PrintHelp"
       THEN /\ stdout' = stdout \o (IF result.payload = <<>>
                                    THEN <<Line("None", <<>>, <<>>, NoRepr)>>
                                    ELSE result.payload)
            /\ UNCHANGED <<calls, uncaught>>
       ELSE IF result.exc = "ValueError"
       THEN /\ stdout' = Append(stdout, Line("%s. Run with ? or -h for more help.",
                                             <<>>, <<>>, NoRepr))
            /\ UNCHANGED <<calls, uncaught>>
       ELSE IF result.exc = "PyoptError"
       THEN /\ stdout' = Append(stdout, Line("%s Run with ? or -h for more help.",
                                             <<>>, <<>>, NoRepr))
            /\ UNCHANGED <<calls, uncaught>>
       ELSE /\ uncaught' = result.exc
            /\ UNCHANGED <<stdout, calls>>
    /\ UNCHANGED <<functions_dict, cmd_args, script_name, is_single, func, raw_args,
                   i, name, args_dict, result, parse_calls>>

-----------------------------------------------------------------------------
(* Initial state: Exposer() with no functions; nothing parsed yet *)

Init ==
    /\ functions_dict = <<>>
    /\ pc = "setup"
    /\ cmd_args = <<>>
    /\ script_name = <<>>
    /\ is_single = FALSE
    /\ func = NoFunc
    /\ raw_args = <<>>
    /\ i = 0
    /\ name = Unbound
    /\ args_dict = EmptyDict
    /\ result = NoResult
    /\ stdout = <<>>
    /\ calls = <<>>
    /\ uncaught = ""
    /\ parse_calls = <<>>


-----------------------------------------------------------------------------
(* Inputs: the command lines and the registrations of each specification *)

MaxArgsTokens == 5
MaxKwargsTokens == 4
MaxMixedTokens == 3
MaxOptionTokens == 2
MaxRestTokens == 2

t_b    == S2("-", "b")
t_n    == S2("-", "n")
t_s    == S2("-", "s")
t_x    == S2("-", "x")
t_u    == S2("-", "u")
t_h    == S2("-", "h")
t_nh   == S3("-", "n", "h")
t_nb   == S3("-", "n", "b")
t_xb   == S3("-", "x", "b")
t_b6   == S3("-", "b", "6")
t_br   == <<"-", "-", "b", "r">>
t_bp   == S3("-", "-", "b")
t_dash == S1("-")
t_dd   == S2("-", "-")
t_6    == S1("6")
t_m6   == S2("-", "6")
t_f    == S1("f")
t_g    == S1("g")
t_F    == S1("F")

SeqsUpTo(S, n) == UNION {[1..k -> S] : k \in 0..n}

Prog == S1("a")
\* a program path whose basename is also the name of a command
ProgPath == S3("d", "/", "f")

\* --- positional commands ---
ArgsTokens == {t_6, t_f, t_m6}
ArgsFunctions == {bigfun, roll_dice, robin, collide, optfun}

ExposeArgs ==
    /\ functions_dict = <<>>
    /\ \E f \in ArgsFunctions : Expose("args", f)

ParseArgs ==
    /\ pc = "setup"
    /\ functions_dict # <<>>
    /\ \E toks \in SeqsUpTo(ArgsTokens, MaxArgsTokens) : parse_args(<<Prog>> \o toks)

NextArgs == ExposeArgs \/ ParseArgs

SpecArgs == Init /\ [][NextArgs]_vars

\* --- switch commands ---
KwargsTokens == {t_b, t_6, t_n, t_nh, t_dash, t_s, t_br}
OptionTokens == KwargsTokens \cup {t_x, t_nb, t_xb, t_bp}
KwargsFunctions == {bigfun, optfun, collide, roll_dice}

\* @expose.kwargs on one function of a fresh Exposer
ExposeKwargs ==
    /\ functions_dict = <<>>
    /\ \E f \in KwargsFunctions : Expose("kwargs", f)

ParseKwargs ==
    /\ pc = "setup"
    /\ functions_dict # <<>>
    /\ \E toks \in SeqsUpTo(KwargsTokens, MaxKwargsTokens)
                   \cup SeqsUpTo(OptionTokens, MaxOptionTokens) :
          parse_args(<<Prog>> \o toks)

NextKwargs == ExposeKwargs \/ ParseKwargs \/ KwargsLoop \/ KwargsExit

SpecKwargs == Init /\ [][NextKwargs]_vars

\* --- hybrid commands ---
MixedTokens == {t_b, t_6, t_n, t_dd, t_dash, t_m6, t_f}
MixedOptionTokens == MixedTokens \cup {t_x, t_u, t_b6, t_br, t_bp, t_nh, t_nb}
MixedFunctions == {roll_dice, bigfun, optfun, robin}

ExposeMixed ==
    /\ functions_dict = <<>>
    /\ \E f \in MixedFunctions : Expose("mixed", f)

ParseMixed ==
    /\ pc = "setup"
    /\ functions_dict # <<>>
    /\ \E toks \in SeqsUpTo(MixedTokens, MaxMixedTokens)
                   \cup SeqsUpTo(MixedOptionTokens, MaxOptionTokens) :
          parse_args(<<Prog>> \o toks)

NextMixed == ExposeMixed \/ ParseMixed

SpecMixed == Init /\ [][NextMixed]_vars

\* --- the dispatcher: any registry of the three commands, a first token and
\* up to MaxRestTokens more, then run ---
FirstTokens == HELP_SET \cup {t_f, t_g, S1("r"), t_F, t_6, t_b}
RestTokens == {t_f, t_g, t_6, t_b, t_h}

ExposeAny ==
    \/ Expose("kwargs", bigfun)
    \/ Expose("mixed", roll_dice)
    \/ Expose("args", robin)

CommandLines ==
    {<<>>} \cup
    {<<p>> \o rest : p \in {Prog, ProgPath},
                     rest \in {<<>>} \cup
                              {<<first>> \o more :
                                  first \in FirstTokens,
                                  more \in SeqsUpTo(RestTokens, MaxRestTokens)}}

ParseCommandLine ==
    /\ pc = "setup"
    /\ \E argv \in CommandLines : parse_args(argv)

Next == ExposeAny \/ ParseCommandLine \/ KwargsLoop \/ KwargsExit \/ run

Spec == Init /\ [][Next]_vars

-----------------------------------------------------------------------------
(* Properties *)

\* self.func.parse(self.raw_args) was called and has ended with `result`
Bound(kind) ==
    /\ pc \in {"parsed", "done"}
    /\ parse_calls # <<>>
    /\ Lookup(functions_dict, func).kind = kind

Selected == Lookup(functions_dict, func)

TooFew == result.exc = "PyoptError" /\ result.msg = "arguments required"
TooMany == result.exc = "PyoptError" /\ result.msg = "expected at most"

\* the bind succeeded with exactly the tokens raw, token k cast with the
\* caster of the k-th name of names, and an empty named map
BoundInOrder(names, raw) ==
    /\ result.exc = "none"
    /\ Len(result.args) = Len(raw)
    /\ \A k \in 1..Len(raw) :
          /\ Cast(Selected.casts[names[k]], raw[k]).ok
          /\ result.args[k] = Cast(Selected.casts[names[k]], raw[k]).val
    /\ result.kwargs = EmptyDict

\* C1 as stated: with k = |required| and m = |optional| of the signature,
\* fewer than k tokens fail with the too-few error, more than k + m with the
\* too-many error, and every count in between binds each token with the
\* caster of the parameter at its position and returns an empty named map.
C1_AsStated ==
    Bound("args") =>
        LET j == Len(raw_args)
            k == Len(Selected.required)
            m == Cardinality(Selected.optional)
        IN  /\ j < k => TooFew
            /\ j > k + m => TooMany
            /\ (k <= j /\ j <= k + m) => BoundInOrder(Selected.arg_names, raw_args)

\* C1 amended: with k the number of parameters without a default (booleans
\* included) and n the number of parameters, fewer than k tokens fail with the
\* too-few error, more than n with the too-many error; for k <= j <= n the
\* bind returns the j casts in order and an empty named map when every cast
\* succeeds, and raises ValueError when a cast fails.
C1_PositionalArity ==
    Bound("args") =>
        LET j == Len(raw_args)
            n == Len(Selected.arg_names)
            k == n - Len(Selected.function.defaults)
            castable == \A p \in 1..j :
                           Cast(Selected.casts[Selected.arg_names[p]], raw_args[p]).ok
        IN  /\ j < k => TooFew
            /\ j > n => TooMany
            /\ (k <= j /\ j <= n /\ castable)
                  => BoundInOrder(Selected.arg_names, raw_args)
            /\ (k <= j /\ j <= n /\ ~castable) => result.exc = "ValueError"

\* a positional bind of r(sh, br:int, nu:int=42) that leaves out the defaulted
\* parameter and casts a string and an int
C1_Witness ==
    /\ Bound("args")
    /\ Selected.function = robin
    /\ raw_args = <<t_f, t_6>>
    /\ result.exc = "none"
    /\ result.args = <<StrV(t_f), IntV(6)>>

-----------------------------------------------------------------------------
(* Hybrid bind *)

\* the parameter an option that getopt reports stands for: --name by its
\* name, -c by its first letter
FlagParam(w, opt) ==
    IF startswith(opt, S2("-", "-")) THEN SliceFrom(opt, 2)
    ELSE CHOOSE a \in Range(w.arg_names) : a[1] = opt[2]

Min(a, b) == IF a < b THEN a ELSE b

\* C2: on a successful hybrid bind the named map holds exactly the
\* parameters given by the leading flags; those parameters are removed from
\* the candidates, the remaining candidates keep their declaration order,
\* and the positional tokens are cast one by one against them in that order.
\* Tokens `6 6` against g(nu:int, br:int) give [6, 6] and no named value,
\* `-b 6 6` gives [6] and {br: 6}.
C2_FlagsLeaveCandidates ==
    (Bound("mixed") /\ result.exc = "none") =>
        LET w          == Selected
            got        == getopt(<<>>, raw_args, shorts_str(w), long_opts(w))
            flagged    == {FlagParam(w, got.opts[k][1]) : k \in 1..Len(got.opts)}
            candidates == Filter(w.arg_names, Range(w.arg_names) \ flagged)
        IN  /\ DOMAIN result.kwargs = flagged
            /\ Len(result.args) = Min(Len(candidates), Len(got.args))
            /\ \A k \in 1..Len(result.args) :
                  result.args[k] = Cast(w.casts[candidates[k]], got.args[k]).val
            /\ (w.function = roll_dice /\ raw_args = <<t_6, t_6>>)
                  => /\ result.args = <<IntV(6), IntV(6)>>
                     /\ result.kwargs = EmptyDict
            /\ (w.function = roll_dice /\ raw_args = <<t_b, t_6, t_6>>)
                  => /\ result.args = <<IntV(6)>>
                     /\ DOMAIN result.kwargs = {n_br}
                     /\ result.kwargs[n_br] = IntV(6)

\* `-b 6 6` against g(nu:int, br:int): br is bound by its flag and the
\* positional 6 goes to nu
C2_Witness ==
    /\ Bound("mixed")
    /\ Selected.function = roll_dice
    /\ raw_args = <<t_b, t_6, t_6>>
    /\ result.exc = "none"
    /\ result.args = <<IntV(6)>>
    /\ DOMAIN result.kwargs = {n_br}

\* tok is written as a flag: it starts with a hyphen and is not a lone hyphen
LooksLikeFlag(tok) == startswith(tok, S1("-")) /\ tok # S1("-")

\* tok, written as a flag, can stand for the parameter a
FlagFor(tok, a) ==
    /\ LooksLikeFlag(tok)
    /\ IF startswith(tok, S2("-", "-"))
       THEN Len(tok) > 2 /\ startswith(a, SliceFrom(tok, 2))
       ELSE \E k \in 2..Len(tok) : tok[k] = a[1]

\* raw splits after its first p tokens into a flag range and a positional
\* range: every token of the flag range is written as a flag or follows one
\* as its value, every named parameter is given by a flag of the flag range,
\* and the positional values are the casts of the tokens that follow, in order.
TwoPhaseSplit(w, raw, p) ==
    /\ \A q \in 1..p : LooksLikeFlag(raw[q]) \/ (q > 1 /\ LooksLikeFlag(raw[q - 1]))
    /\ \A a \in DOMAIN result.kwargs : \E q \in 1..p : FlagFor(raw[q], a)
    /\ Len(result.args) <= Len(raw) - p
    /\ LET candidates == Filter(w.arg_names, Range(w.arg_names) \ DOMAIN result.kwargs)
       IN  \A k \in 1..Len(result.args) :
              result.args[k] = Cast(w.casts[candidates[k]], raw[p + k]).val

\* C3: a successful hybrid bind scans in two phases and never returns to the
\* flag phase: the tokens split into a leading flag range and a positional
\* range that starts at the first token that is not a flag; every token from
\* there on is positional, also one written as a flag, and no parameter is
\* named from a token after it.
C3_TwoPhase ==
    (Bound("mixed") /\ result.exc = "none") =>
        \E p \in 0..Len(raw_args) : TwoPhaseSplit(Selected, raw_args, p)

\* `6 -n` against f(br:int, nu:bool, ha:bool, sh:str='gold'): the -n after
\* the first positional token is a positional value, not the flag of nu
C3_Witness ==
    /\ Bound("mixed")
    /\ Selected.function = bigfun
    /\ raw_args = <<t_6, t_n>>
    /\ result.exc = "none"
    /\ result.kwargs = EmptyDict
    /\ result.args = <<IntV(6), BoolV(TRUE)>>

-----------------------------------------------------------------------------
(* Switch bind *)

\* no two parameters of w start with the same character
DistinctFirstLetters(w) ==
    \A a, b \in Range(w.arg_names) : a[1] = b[1] => a = b

\* the parameters of w whose first letter is c
WithLetter(w, c) == {a \in Range(w.arg_names) : a[1] = c}

IsLong(tok) == startswith(tok, S2("-", "-"))
IsShort(tok) == ~IsLong(tok) /\ startswith(tok, S1("-")) /\ Len(tok) = 2
IsCluster(tok) == ~IsLong(tok) /\ startswith(tok, S1("-")) /\ Len(tok) > 2

\* the parameters the option token tok names: --name names name, -c the
\* parameter that starts with c, a cluster every parameter that starts with
\* one of its characters; any other token names nothing
NamedBy(w, tok) ==
    IF IsLong(tok) THEN {SliceFrom(tok, 2)} \cap Range(w.arg_names)
    ELSE IF IsShort(tok) THEN WithLetter(w, tok[2])
    ELSE IF IsCluster(tok) THEN UNION {WithLetter(w, tok[k]) : k \in 2..Len(tok)}
    ELSE {}

\* the parameters given as an option in raw from position q on (q counted
\* from 1): an option of a non-boolean parameter is followed by its value,
\* which is no option
RECURSIVE Given(_, _, _)
Given(w, raw, q) ==
    IF q > Len(raw) THEN {}
    ELSE LET named == NamedBy(w, raw[q])
             valued == ~IsCluster(raw[q]) /\ \E a \in named : w.casts[a] # "bool"
         IN  named \cup Given(w, raw, IF valued THEN q + 2 ELSE q + 1)

\* C4 as stated, for a signature with distinct first letters: a successful
\* switch bind returns no positional value and a named map whose keys are
\* the booleans and the non-boolean parameters given as an option; a boolean
\* is true when its flag was given and false otherwise; with no token and no
\* required parameter the bind succeeds with every boolean false.
C4_AsStated ==
    (Bound("kwargs") /\ DistinctFirstLetters(Selected)) =>
        LET w == Selected
            given == Given(w, raw_args, 1)
            bools == Range(w.booleans)
        IN  /\ result.exc = "none" =>
                  /\ result.args = <<>>
                  /\ DOMAIN result.kwargs = bools \cup given
                  /\ \A b \in bools : result.kwargs[b] = BoolV(b \in given)
            /\ (raw_args = <<>> /\ w.required = <<>>) =>
                  /\ result.exc = "none"
                  /\ result.kwargs = [b \in bools |-> BoolV(FALSE)]

\* the token at the cursor of the switch scan
AtCursor == raw_args[i + 1]

Scanning == pc = "kwargs_loop" /\ i < Len(raw_args)

ScanWrapper == Lookup(functions_dict, func)

IllegalCluster(r) ==
    /\ r.exc = "PyoptError"
    /\ r.msg = "Illegal option given as boolean"
    /\ r.kwargs = EmptyDict

\* args_dict after the step is args_dict with the names of set bound to true
SetTrue(set) ==
    args_dict' = [a \in DOMAIN args_dict \cup set |->
                    IF a \in set THEN BoolV(TRUE) ELSE args_dict[a]]

Letters(tok) == SliceFrom(tok, 1)

\* the position in the cluster of the first character that is not the first
\* letter of a boolean parameter, 0 when there is none
FirstNonBoolean(w, tok) ==
    LET ls == Letters(tok)
        bad == {k \in 1..Len(ls) : WithLetter(w, ls[k]) \cap Range(w.booleans) = {}}
    IN  IF bad = {} THEN 0 ELSE CHOOSE k \in bad : \A h \in bad : k <= h

UnknownOption(r) == r.exc = "PyoptError" /\ r.msg = "Illegal option given"

\* C6: an option at the cursor that resolves to no parameter fails with the
\* unknown-option PyoptError: a long option that is no exact parameter name,
\* a two-character short option whose letter starts no parameter, a cluster
\* holding such a letter.
C6_AsStated ==
    [][(Scanning /\ (IsLong(AtCursor) \/ IsShort(AtCursor) \/ IsCluster(AtCursor))
          /\ (\/ NamedBy(ScanWrapper, AtCursor) = {}
              \/ /\ IsCluster(AtCursor)
                 /\ \E k \in 2..Len(AtCursor) : WithLetter(ScanWrapper, AtCursor[k]) = {}))
          => pc' = "parsed" /\ result'.exc = "PyoptError"]_vars

\* C7: when the scan has gone through every token without an error, the
\* bind fails with the missing-options error exactly when a parameter that
\* has no default and is not boolean is absent from the bound map; the
\* error lists each such parameter once and no boolean; otherwise the bind
\* returns the bound map.
C7_MissingRequired ==
    (Bound("kwargs") /\ i >= Len(raw_args)) =>
        LET w == Selected
            n == Len(w.arg_names)
            absent == {a \in Range(w.arg_names) :
                          /\ \E k \in 1..(n - Len(w.function.defaults)) : w.arg_names[k] = a
                          /\ w.function.annotations[a] # "bool"
                          /\ a \notin DOMAIN args_dict}
            missing == /\ result.exc = "PyoptError"
                       /\ result.msg = "The following options are required"
        IN  /\ missing <=> absent # {}
            /\ missing => /\ Range(result.info) = absent
                          /\ Len(result.info) = Cardinality(absent)
                          /\ Range(result.info) \cap Range(w.booleans) = {}
            /\ ~missing => result.exc = "none" /\ result.kwargs = args_dict

\* g(nu:int, br:int) with only -b 6 given: nu is reported missing, br is not
C7_Witness ==
    /\ Bound("kwargs")
    /\ Selected.function = roll_dice
    /\ raw_args = <<t_b, t_6>>
    /\ result.msg = "The following options are required"
    /\ result.info = <<n_nu>>

\* C8: no function with two parameters that start with the same character is
\* in the registry under kwargs or mixed, and no bind runs against one.
C8_AsStated ==
    /\ \A k \in 1..Len(functions_dict) :
          functions_dict[k].value.kind \in {"kwargs", "mixed"}
             => DistinctFirstLetters(functions_dict[k].value)
    /\ \A k \in 1..Len(parse_calls) :
          Lookup(functions_dict, parse_calls[k].func).kind \in {"kwargs", "mixed"}
             => DistinctFirstLetters(Lookup(functions_dict, parse_calls[k].func))

-----------------------------------------------------------------------------
(* Dispatch *)

ParseEnded == pc \in {"parsed", "done"}

UnknownCommand(r) == r.exc = "PyoptError" /\ r.msg = "Unkown function"

\* C9: with two or more commands and a first token after the program name
\* that is no help token: when the token is a key of the registry that
\* command is selected and parse is called once, with exactly the tokens
\* after the command name; otherwise dispatch fails with the unknown-command
\* error and parse is not called. The program name is never read as a command.
C9_MultiDispatch ==
    (/\ ParseEnded
     /\ Len(functions_dict) >= 2
     /\ Len(cmd_args) >= 2
     /\ cmd_args[2] \notin HELP_SET) =>
        IF cmd_args[2] \in Keys(functions_dict)
        THEN /\ func = cmd_args[2]
             /\ parse_calls = <<[func |-> cmd_args[2],
                                 raw_args |-> SubSeq(cmd_args, 3, Len(cmd_args))]>>
        ELSE /\ UnknownCommand(result)
             /\ result.info = <<cmd_args[2]>>
             /\ parse_calls = <<>>

\* d/f g f 6 with f and g exposed: g is selected although the program is
\* called f, and f 6 is forwarded; d/f F is an unknown command
C9_Witness ==
    \/ /\ ParseEnded
       /\ Keys(functions_dict) = {S1("f"), S1("g")}
       /\ cmd_args = <<ProgPath, t_g, t_f, t_6>>
       /\ parse_calls = <<[func |-> S1("g"), raw_args |-> <<t_f, t_6>>]>>
    \/ /\ ParseEnded
       /\ Len(functions_dict) >= 2
       /\ cmd_args = <<ProgPath, t_F>>
       /\ UnknownCommand(result)

\* C10: with one command exposed, a first token of the help set ends
\* dispatch with PrintHelp carrying the usage text of the command, which
\* starts with "Usage: " and the program name, and parse is not called; in
\* every other case parse is called once with all tokens after the program
\* name.
C10_AsStated ==
    (ParseEnded /\ Len(functions_dict) = 1 /\ cmd_args # <<>>) =>
        IF Len(cmd_args) > 1 /\ cmd_args[2] \in HELP_SET
        THEN /\ result.exc = "PrintHelp"
             /\ parse_calls = <<>>
             /\ result.payload # <<>>
             /\ result.payload[1].fmt = "Usage: %s %s"
             /\ result.payload[1].script = basename(cmd_args[1])
        ELSE parse_calls = <<[func |-> functions_dict[1].key,
                              raw_args |-> Tail(cmd_args)]>>

\* what a help request has put out when parse_args ends: the lines printed
\* during dispatch, then the text the PrintHelp raised carries
HelpOutput == stdout \o result.payload

\* the listing of every command of the registry, in registration order
FullListing(out) ==
    /\ Len(out) = 2 + Len(functions_dict)
    /\ out[1].fmt = "Usage: %s [function_name] [args]"
    /\ out[1].script = basename(cmd_args[1])
    /\ out[2].fmt = "Available functions are:"
    /\ \A k \in 1..Len(functions_dict) :
          /\ out[k + 2].fname = functions_dict[k].key
          /\ out[k + 2].repr = parameters_repr(functions_dict[k].value)

\* the usage of the one command key
CommandUsage(out, key) ==
    /\ Len(out) = 1
    /\ out[1].fname = key
    /\ out[1].repr = parameters_repr(Lookup(functions_dict, key))

\* C11: with two or more commands and a help token first, dispatch ends with
\* PrintHelp and parse is not called; the help output is the usage of the
\* command the next token names when it names one, and in every other case
\* (no next token, or one that names no command) the listing of all commands
\* in registration order.
C11_AsStated ==
    (/\ pc = "parsed"
     /\ Len(functions_dict) >= 2
     /\ Len(cmd_args) >= 2
     /\ cmd_args[2] \in HELP_SET) =>
        /\ result.exc = "PrintHelp"
        /\ parse_calls = <<>>
        /\ IF Len(cmd_args) >= 3 /\ cmd_args[3] \in Keys(functions_dict)
           THEN CommandUsage(HelpOutput, cmd_args[3])
           ELSE FullListing(HelpOutput)

-----------------------------------------------------------------------------
(* Exposer.run *)

\* C12: run ends in exactly one of two ways: the selected command was called
\* once, with the positional list and the named map of a bind that succeeded,
\* and nothing was printed, or a help or diagnostic text was printed and no
\* command was called; no failure of dispatch or bind leaves run as an
\* uncaught exception.
C12_AsStated ==
    pc = "done" =>
        /\ uncaught = ""
        /\ \/ /\ result.exc = "none"
              /\ calls = <<[func |-> func, args |-> result.args,
                            kwargs |-> result.kwargs]>>
              /\ stdout = <<>>
           \/ /\ result.exc # "none"
              /\ calls = <<>>
              /\ stdout # <<>>

-----------------------------------------------------------------------------
(* Hybrid bind: errors, and its flags against those of the switch bind *)

\* C13: in a hybrid bind whose flag range getopt accepts, with c candidates
\* left after the flags, more than c positional tokens fail with the
\* too-many error, and a required parameter that is bound neither by a flag
\* nor by a positional token makes the bind fail with a PyoptError.
C13_AsStated ==
    Bound("mixed") =>
        LET w          == Selected
            got        == getopt(<<>>, raw_args, shorts_str(w), long_opts(w))
            flagged    == {FlagParam(w, got.opts[k][1]) : k \in 1..Len(got.opts)}
            candidates == Filter(w.arg_names, Range(w.arg_names) \ flagged)
            positional == {candidates[k] : k \in 1..Min(Len(candidates), Len(got.args))}
        IN  got.err = "" =>
               /\ Len(got.args) > Len(candidates) => TooMany
               /\ (\E a \in Range(w.required) : a \notin flagged \cup positional)
                     => result.exc = "PyoptError"

\* the hybrid bind of the tokens of the switch bind that has just ended,
\* against the same function
HybridOfSelected == MixedFunction_parse(FunctionWrapper(Selected.function, "mixed"), raw_args)

\* the parameters the switch bind has bound from an option: a boolean bound
\* to true, a non-boolean parameter in the named map
SwitchAccepted == {a \in DOMAIN result.kwargs : result.kwargs[a] # BoolV(FALSE)}

\* C14: for a signature with distinct first letters and tokens that are only
\* options and their values (no lone hyphen), every parameter a successful
\* switch bind has bound from --name, -n or a cluster is bound by the hybrid
\* bind of the same tokens too, in its named map and to the same value.
C14_AsStated ==
    (/\ Bound("kwargs")
     /\ result.exc = "none"
     /\ DistinctFirstLetters(Selected)
     /\ \A k \in 1..Len(raw_args) : raw_args[k] # t_dash) =>
        /\ HybridOfSelected.exc = "none"
        /\ \A a \in SwitchAccepted :
              /\ a \in DOMAIN HybridOfSelected.kwargs
              /\ HybridOfSelected.kwargs[a] = result.kwargs[a]

-----------------------------------------------------------------------------
(* Switch scan: the name a value is bound under *)

\* the parameters whose binding the step changes
Rebound ==
    {a \in DOMAIN args_dict' : a \notin DOMAIN args_dict \/ args_dict'[a] # args_dict[a]}

\* C15: every iteration of the switch scan either ends the bind with an
\* error or has resolved a parameter from the token at the cursor, and binds
\* a value under no other name; a lone hyphen, which names no parameter,
\* therefore ends the bind.
C15_AsStated ==
    [][Scanning =>
          \/ pc' = "parsed" /\ result'.exc # "none"
          \/ /\ NamedBy(ScanWrapper, AtCursor) # {}
             /\ Rebound \subseteq NamedBy(ScanWrapper, AtCursor)]_vars

====
